---- MODULE Spec2Model ----
(***************************************************************************)
(* The two report scripts of steno-drill, script/burden.py and             *)
(* script/tolearn.py, over the tables history, errors and learn of         *)
(* learn.db.                                                               *)
(*                                                                         *)
(* Units.  Timestamps of history and errors are whole minutes since an     *)
(* epoch; learn.next and the clock `now` are whole seconds, as             *)
(* strftime('%s') gives them.  The burden amounts (cost, total, over) are  *)
(* held in seconds, where the script holds float minutes: one doubling is  *)
(* worth 3 seconds (3.0 / 60.0 minute).  Intervals of the errors table are *)
(* 5 * 2^k seconds, so that log2(interval / 5.0) is the integer k.         *)
(* A day-key is the number of the day, where SQLite gives its ISO date.    *)
(* Rows are well formed (no NULL column), as the producer of the log       *)
(* writes them.                                                            *)
(***************************************************************************)
EXTENDS Integers, Sequences, FiniteSets, TLC

VARIABLES
    history,    \* table history: sequence (rowid order) of [start, stop]
    errors,     \* table errors: sequence of [stamp, interval]
    learn,      \* table learn: sequence of [word, goods, interval, next]
    now,        \* the wall clock, seconds
    prog,       \* the script that runs: "none", "burden", "tolearn", "track"
    pc,         \* its position
    elts,       \* burden.py: the dict compute_daily returned
    track,      \* burden.py: the Track object [daily, last_date, cost]
    ecur,       \* burden.py: rows the errors cursor has yet to yield
    rows,       \* tolearn.py: the list rows
    longest,    \* tolearn.py: longest
    count,      \* tolearn.py: count
    out,        \* lines written to standard output by the running script
    pipe,       \* standard output: "open" or "closed" by its reader
    exit,       \* how the run ended: "running", "ok", or the failure
    fed,        \* history: the events handed to Track.add so far
    ships,      \* history: the number of direct calls of Track.ship
    call,       \* history: the last call made on the Track
    prev        \* history: the last complete run of each script

vars == <<history, errors, learn, now, prog, pc, elts, track, ecur, rows,
          longest, count, out, pipe, exit, fed, ships, call, prev>>

store == <<history, errors, learn>>
burdenVars == <<elts, track, ecur>>
tolearnVars == <<rows, longest, count>>
harnessVars == <<fed, ships, call>>

(***************************************************************************)
(* Bounds of the model.                                                    *)
(***************************************************************************)
MaxCalls == 5       \* calls made on one Track by the harness
MaxHist == 3        \* rows of history
MaxSmall == 3       \* rows of a small learn table
MaxRows == 52       \* rows of a large learn table
MaxTicks == 2       \* seconds the clock ticks while the scripts are run

(***************************************************************************)
(* Program constants.                                                      *)
(***************************************************************************)
DayShift == 9       \* date(..., '-9 hours')
Limit == 50         \* limit 50

\* The clock when the first run starts: minute 600 of the epoch.
StartNow == 600 * 60

None == <<>>
Some(x) == <<x>>
EmptyMap == [x \in {} |-> 0]

Max(a, b) == IF a >= b THEN a ELSE b
Min(a, b) == IF a <= b THEN a ELSE b

(***************************************************************************)
(* burden.py                                                               *)
(***************************************************************************)

\* DayKey with a seeded fault: the day is counted from the current time.
DayKeyFromNow(t) == (t * 60 - now) \div (24 * 60 * 60)

\* date(t, '-9 hours'): the day the minute t - 9 h falls in.
DayKey(t) == (t - DayShift * 60) \div (24 * 60)

\* julianday(stop) - julianday(start), times 24 * 60: the minutes elapsed.
Elapsed(h) == h.stop - h.start

\* AggStep with a seeded fault: the group keeps its last row instead of the sum.
AggStepLast(acc, h) ==
    LET k == DayKey(h.start)
    IN  IF k \in DOMAIN acc THEN [acc EXCEPT ![k] = Elapsed(h)]
        ELSE acc @@ (k :> Elapsed(h))

\* One step of SUM(...) GROUP BY date(start, '-9 hours'): the row joins the
\* group of its day-key.
AggStep(acc, h) ==
    LET k == DayKey(h.start)
    IN  IF k \in DOMAIN acc THEN [acc EXCEPT ![k] = @ + Elapsed(h)]
        ELSE acc @@ (k :> Elapsed(h))

RECURSIVE Aggregate(_, _)
Aggregate(hist, acc) ==
    IF hist = <<>> THEN acc
    ELSE Aggregate(Tail(hist), AggStep(acc, Head(hist)))

RECURSIVE Ascending(_)
\* The elements of a finite set of integers, smallest first.
Ascending(S) ==
    IF S = {} THEN <<>>
    ELSE LET m == CHOOSE x \in S : \A y \in S : x <= y
         IN  <<m>> \o Ascending(S \ {m})

\* The rows of the query of compute_daily: one (date, time) per group, in the
\* order of start; time in seconds.
DailyQuery(hist) ==
    LET sums == Aggregate(hist, EmptyMap)
        keys == Ascending(DOMAIN sums)
    IN  [i \in 1..Len(keys) |-> <<keys[i], sums[keys[i]] * 60>>]

RECURSIVE DailyLoop(_, _)
\* for row in cur.execute(...): elts[date] = time
DailyLoop(cur, e) ==
    IF cur = <<>> THEN e
    ELSE LET date == Head(cur)[1]
             time == Head(cur)[2]
         IN  DailyLoop(Tail(cur),
                 IF date \in DOMAIN e THEN [e EXCEPT ![date] = time]
                 ELSE e @@ (date :> time))

compute_daily(hist) == DailyLoop(DailyQuery(hist), EmptyMap)

RECURSIVE Log2(_, _)
\* log2(n / d), for n / d a power of two.
Log2(n, d) ==
    IF n = d THEN 0
    ELSE IF n > d THEN 1 + Log2(n, 2 * d)
    ELSE Log2(2 * n, d) - 1

\* math.log2(interval / 5.0) * 3.0 / 60.0 minutes, in seconds.
Cost(interval) == Log2(interval, 5) * 3

\* Track.__init__
TrackInit(daily) == [daily |-> daily, last_date |-> None, cost |-> 0]

\* self.daily.get(key, 0)
DailyGet(daily, key) == IF key \in DOMAIN daily THEN daily[key] ELSE 0

\* The line Track.ship formats: the date and the three amounts.
Line(t) ==
    LET d == t.last_date[1]
        total == DailyGet(t.daily, d)
    IN  [date |-> d, burden |-> t.cost, total |-> total, over |-> total - t.cost]

\* Ship with a seeded fault: setdefault instead of get, which stores the missing day.
ShipSetDefault(t) ==
    IF t.last_date = None THEN [track |-> t, printed |-> <<>>]
    ELSE [track |-> [daily |->
                        IF t.last_date[1] \in DOMAIN t.daily THEN t.daily
                        ELSE t.daily @@ (t.last_date[1] :> 0),
                     last_date |-> None, cost |-> 0],
          printed |-> <<Line(t)>>]

\* Ship with a seeded fault: the cost is not reset.
ShipKeepCost(t) ==
    IF t.last_date = None THEN [track |-> t, printed |-> <<>>]
    ELSE [track |-> [t EXCEPT !.last_date = None],
          printed |-> <<Line(t)>>]

\* Track.ship: the Track after it, and the lines it printed.
Ship(t) ==
    IF t.last_date = None THEN [track |-> t, printed |-> <<>>]
    ELSE [track |-> [t EXCEPT !.last_date = None, !.cost = 0],
          printed |-> <<Line(t)>>]

\* Add with a seeded fault: cost = instead of cost +=.
AddOverwrite(t, date, interval) ==
    LET s == IF Some(date) # t.last_date THEN Ship(t)
             ELSE [track |-> t, printed |-> <<>>]
        t1 == IF Some(date) # t.last_date
              THEN [s.track EXCEPT !.last_date = Some(date)] ELSE s.track
    IN  [track |-> [t1 EXCEPT !.cost = Cost(interval)],
         printed |-> s.printed]

\* Add with a seeded fault: a new date is opened without shipping the open one.
AddNoShip(t, date, interval) ==
    LET t1 == IF Some(date) # t.last_date
              THEN [t EXCEPT !.last_date = Some(date)] ELSE t
    IN  [track |-> [t1 EXCEPT !.cost = @ + Cost(interval)], printed |-> <<>>]

\* Track.add
Add(t, date, interval) ==
    LET s == IF Some(date) # t.last_date THEN Ship(t)
             ELSE [track |-> t, printed |-> <<>>]
        t1 == IF Some(date) # t.last_date
              THEN [s.track EXCEPT !.last_date = Some(date)] ELSE s.track
    IN  [track |-> [t1 EXCEPT !.cost = @ + Cost(interval)],
         printed |-> s.printed]

RECURSIVE InsertByStampDesc(_, _)
\* e put into the list sorted by stamp, latest first, behind its equals.
InsertByStampDesc(sorted, e) ==
    IF sorted = <<>> THEN <<e>>
    ELSE IF Head(sorted).stamp >= e.stamp
         THEN <<Head(sorted)>> \o InsertByStampDesc(Tail(sorted), e)
         ELSE <<e>> \o sorted

RECURSIVE SortByStampDesc(_)
SortByStampDesc(tbl) ==
    IF tbl = <<>> THEN <<>>
    ELSE InsertByStampDesc(SortByStampDesc(SubSeq(tbl, 1, Len(tbl) - 1)),
                           tbl[Len(tbl)])

\* SELECT date(stamp, '-9 hours'), interval FROM errors ORDER BY stamp DESC
ErrorsQuery(tbl) ==
    LET sorted == SortByStampDesc(tbl)
    IN  [i \in 1..Len(sorted) |->
            <<DayKey(sorted[i].stamp), sorted[i].interval>>]

(***************************************************************************)
(* tolearn.py                                                              *)
(***************************************************************************)

\* The number n / d, d > 0.
Ratio(n, d) == [n |-> n, d |-> d]

\* f"{q:9.2f}" for q >= 0: its digits, as the number of hundredths.
Fixed2(q) == (200 * q.n + q.d) \div (2 * q.d)

\* negfmt with a seeded fault: the test is num <= 0.
negfmtZero(num) ==
    IF num.n <= 0
    THEN [open |-> "(", digits |-> Fixed2(Ratio(-num.n, num.d)), close |-> ")"]
    ELSE [open |-> " ", digits |-> Fixed2(num), close |-> " "]

\* negfmt: the opening character, the digits, the closing character.
negfmt(num) ==
    IF num.n < 0
    THEN [open |-> "(", digits |-> Fixed2(Ratio(-num.n, num.d)), close |-> ")"]
    ELSE [open |-> " ", digits |-> Fixed2(num), close |-> " "]

RECURSIVE InsertByNext(_, _)
\* r put into the list sorted by next, soonest first, behind its equals.
InsertByNext(sorted, r) ==
    IF sorted = <<>> THEN <<r>>
    ELSE IF Head(sorted).next <= r.next
         THEN <<Head(sorted)>> \o InsertByNext(Tail(sorted), r)
         ELSE <<r>> \o sorted

RECURSIVE SortByNext(_)
SortByNext(tbl) ==
    IF tbl = <<>> THEN <<>>
    ELSE InsertByNext(SortByNext(SubSeq(tbl, 1, Len(tbl) - 1)), tbl[Len(tbl)])

\* LearnQuery with a seeded fault: no limit.
LearnQueryAll(tbl, t) ==
    LET sorted == SortByNext(tbl)
    IN  [i \in 1..Len(sorted) |->
            <<sorted[i].word, sorted[i].goods, sorted[i].interval,
              sorted[i].next - t>>]

\* select word, goods, interval, next - strftime('%s') from learn
\* order by next limit 50, at the clock time t.
LearnQuery(tbl, t) ==
    LET sorted == SortByNext(tbl)
    IN  [i \in 1..Min(Limit, Len(sorted)) |->
            <<sorted[i].word, sorted[i].goods, sorted[i].interval,
              sorted[i].next - t>>]

RECURSIVE MaxOf(_)
\* max of a non-empty list of integers
MaxOf(s) ==
    IF Len(s) = 1 THEN s[1] ELSE Max(s[1], MaxOf(Tail(s)))

\* MaxWordLen with a seeded fault: max(..., default=0).
MaxWordLenDefault(rs) ==
    IF rs = <<>> THEN [raised |-> FALSE, value |-> 0]
    ELSE [raised |-> FALSE, value |-> MaxOf([i \in 1..Len(rs) |-> Len(rs[i][1])])]

\* max([len(x[0]) for x in rows]): max() of an empty list raises ValueError.
MaxWordLen(rs) ==
    IF rs = <<>> THEN [raised |-> TRUE, value |-> 0]
    ELSE [raised |-> FALSE, value |-> MaxOf([i \in 1..Len(rs) |-> Len(rs[i][1])])]

\* The two header lines: 'word' left-aligned in longest columns, and the rule.
Header1(w) == [kind |-> "head", width |-> Max(4, w)]
Header2(w) == [kind |-> "rule", width |-> w]

\* The line of one row: imin = row[2] / 60, nmin = row[3] / 60 (the model's
\* tuples count from 1).
RowLine(c, w, row) ==
    [kind |-> "row", rank |-> c, word |-> row[1],
     width |-> Max(Len(row[1]), w), goods |-> row[2],
     imin |-> negfmt(Ratio(row[3], 60)),
     nmin |-> negfmt(Ratio(row[4], 60)),
     nsec |-> negfmt(Ratio(row[4], 1))]

(***************************************************************************)
(* The two scripts as processes.                                           *)
(***************************************************************************)

NoCall == [op |-> "new", date |-> 0, interval |-> 5]
NoRuns == [p \in {"burden", "tolearn"} |-> None]

\* No script runs; the store and the clock are given.
InitProcess ==
    /\ prog = "none" /\ pc = "idle"
    /\ elts = EmptyMap /\ track = TrackInit(EmptyMap) /\ ecur = <<>>
    /\ rows = <<>> /\ longest = 0 /\ count = 0
    /\ out = <<>> /\ pipe = "open" /\ exit = "running"
    /\ fed = <<>> /\ ships = 0 /\ call = NoCall
    /\ prev = NoRuns

\* The state of a process that has just been started.
Fresh ==
    /\ elts' = EmptyMap /\ track' = TrackInit(EmptyMap) /\ ecur' = <<>>
    /\ rows' = <<>> /\ longest' = 0 /\ count' = 0
    /\ out' = <<>> /\ pipe' = "open" /\ exit' = "running"

\* burden.py is started: a new process, its standard output open.
StartBurden ==
    /\ pc = "idle"
    /\ prog' = "burden" /\ pc' = "daily"
    /\ Fresh
    /\ UNCHANGED <<store, now, harnessVars, prev>>

\* burden.py main: daily = compute_daily(cur); track = Track(daily); the
\* errors query is executed.
BurdenDaily ==
    /\ prog = "burden" /\ pc = "daily"
    /\ elts' = compute_daily(history)
    /\ track' = TrackInit(elts')
    /\ ecur' = ErrorsQuery(errors)
    /\ pc' = "loop"
    /\ UNCHANGED <<store, now, prog, tolearnVars, out, pipe, exit,
                   harnessVars, prev>>

\* signal(SIGPIPE, SIG_DFL): a write to the closed pipe kills the process.
BurdenWrite(r, nextpc, nextexit) ==
    IF r.printed # <<>> /\ pipe = "closed"
    THEN /\ pc' = "exited" /\ exit' = "SIGPIPE"
         /\ UNCHANGED <<track, out>>
    ELSE /\ track' = r.track
         /\ out' = out \o r.printed
         /\ pc' = nextpc /\ exit' = nextexit

\* One turn of the loop of main: track.add(date, interval).
BurdenRow ==
    /\ prog = "burden" /\ pc = "loop" /\ ecur # <<>>
    /\ BurdenWrite(Add(track, Head(ecur)[1], Head(ecur)[2]), "loop", exit)
    /\ ecur' = Tail(ecur)
    /\ UNCHANGED <<store, now, prog, elts, tolearnVars, pipe, harnessVars, prev>>

\* After the loop: track.ship(), and main returns.
BurdenShip ==
    /\ prog = "burden" /\ pc = "loop" /\ ecur = <<>>
    /\ BurdenWrite(Ship(track), "exited", "ok")
    /\ UNCHANGED <<store, now, prog, elts, ecur, tolearnVars, pipe,
                   harnessVars, prev>>

\* tolearn.py is started.
StartToLearn ==
    /\ pc = "idle"
    /\ prog' = "tolearn" /\ pc' = "query"
    /\ Fresh
    /\ UNCHANGED <<store, now, harnessVars, prev>>

\* tolearn.py main: the query fills rows.
ToLearnQuery ==
    /\ prog = "tolearn" /\ pc = "query"
    /\ rows' = LearnQuery(learn, now)
    /\ pc' = "width"
    /\ UNCHANGED <<store, now, prog, burdenVars, longest, count, out, pipe,
                   exit, harnessVars, prev>>

\* longest = max(...); count = 1
ToLearnWidth ==
    /\ prog = "tolearn" /\ pc = "width"
    /\ LET w == MaxWordLen(rows)
       IN  IF w.raised
           THEN /\ pc' = "exited" /\ exit' = "ValueError"
                /\ UNCHANGED <<longest, count>>
           ELSE /\ longest' = w.value /\ count' = 1
                /\ pc' = "head1" /\ UNCHANGED exit
    /\ UNCHANGED <<store, now, prog, burdenVars, rows, out, pipe,
                   harnessVars, prev>>

\* print(line): SIGPIPE is ignored, as Python starts, so a write to the
\* closed pipe raises BrokenPipeError, which nothing catches.
ToLearnWrite(line, nextpc) ==
    IF pipe = "closed"
    THEN /\ pc' = "exited" /\ exit' = "BrokenPipeError"
         /\ UNCHANGED out
    ELSE /\ out' = Append(out, line)
         /\ pc' = nextpc /\ UNCHANGED exit

ToLearnHead1 ==
    /\ prog = "tolearn" /\ pc = "head1"
    /\ ToLearnWrite(Header1(longest), "head2")
    /\ UNCHANGED <<store, now, prog, burdenVars, tolearnVars, pipe,
                   harnessVars, prev>>

ToLearnHead2 ==
    /\ prog = "tolearn" /\ pc = "head2"
    /\ ToLearnWrite(Header2(longest), "rows")
    /\ UNCHANGED <<store, now, prog, burdenVars, tolearnVars, pipe,
                   harnessVars, prev>>

\* One turn of "for row in rows": the row is printed, count += 1.  The row
\* the loop is at is the one after the data rows printed so far.
ToLearnRow ==
    /\ prog = "tolearn" /\ pc = "rows" /\ Len(out) - 2 < Len(rows)
    /\ ToLearnWrite(RowLine(count, longest, rows[Len(out) - 1]), "rows")
    /\ count' = IF pipe = "closed" THEN count ELSE count + 1
    /\ UNCHANGED <<store, now, prog, burdenVars, rows, longest, pipe,
                   harnessVars, prev>>

\* The loop is over and main returns.
ToLearnEnd ==
    /\ prog = "tolearn" /\ pc = "rows" /\ Len(out) - 2 = Len(rows)
    /\ pc' = "exited" /\ exit' = "ok"
    /\ UNCHANGED <<store, now, prog, burdenVars, tolearnVars, out, pipe,
                   harnessVars, prev>>

\* The reader of standard output closes it while the script runs.
ClosePipe ==
    /\ prog \in {"burden", "tolearn"} /\ pc \notin {"idle", "exited"}
    /\ pipe = "open"
    /\ pipe' = "closed"
    /\ UNCHANGED <<store, now, prog, pc, burdenVars, tolearnVars, out, exit,
                   harnessVars, prev>>

\* The exit status the shell sees, and whether the run wrote an error message.
ExitStatus(e) ==
    CASE e = "ok" -> 0
      [] e = "SIGPIPE" -> 128 + 13
      [] OTHER -> 1
ErrorMessage(e) == e \in {"ValueError", "BrokenPipeError"}

\* The process is gone; a run whose output was read to its end is remembered.
Reap ==
    /\ pc = "exited"
    /\ pc' = "idle"
    /\ prev' = IF pipe = "open"
               THEN [prev EXCEPT ![prog] = Some([out |-> out, at |-> now])]
               ELSE prev
    /\ UNCHANGED <<store, now, prog, burdenVars, tolearnVars, out, pipe, exit,
                   harnessVars>>

\* A second passes between two runs.
Tick ==
    /\ pc = "idle" /\ now < StartNow + MaxTicks
    /\ now' = now + 1
    /\ UNCHANGED <<store, prog, pc, burdenVars, tolearnVars, out, pipe, exit,
                   harnessVars, prev>>

(***************************************************************************)
(* The stores the scripts are run on.                                      *)
(***************************************************************************)
RECURSIVE SeqsUpTo(_, _)
\* The sequences over S of length at most n.
SeqsUpTo(S, n) ==
    IF n = 0 THEN {<<>>}
    ELSE LET shorter == SeqsUpTo(S, n - 1)
         IN  shorter \cup {Append(s, x) : s \in {t \in shorter : Len(t) = n - 1},
                                          x \in S}


\* Sessions: three days, two starts within one of them.
HistKinds == {[start |-> s, stop |-> s + m] : s \in {500, 600, 1900, 2000},
                                              m \in {1, 30}}
Histories == SeqsUpTo(HistKinds, MaxHist)

ErrorTables ==
    {<<>>,
     <<[stamp |-> 600, interval |-> 20]>>,
     <<[stamp |-> 600, interval |-> 20], [stamp |-> 2000, interval |-> 10],
       [stamp |-> 1900, interval |-> 5]>>}

LearnKinds ==
    {[word |-> w, goods |-> p[1], interval |-> p[2], next |-> x] :
        w \in {"at", "there"}, p \in {<<0, 5>>, <<12, 90>>},
        x \in {StartNow - 60, StartNow, StartNow + 30}}
SmallLearns == SeqsUpTo(LearnKinds, MaxSmall)

\* A table of n rows whose next values run through 7 residues with stride p.
LargeLearn(n, p) ==
    [i \in 1..n |->
        [word |-> IF i % 3 = 0 THEN "there" ELSE "at",
         goods |-> i % 4, interval |-> 5 + 30 * (i % 3),
         next |-> StartNow - 60 + 15 * ((i * p) % 7)]]
LargeLearns == {LargeLearn(n, p) : n \in (Limit - 1)..MaxRows, p \in {1, 3}}

(***************************************************************************)
(* burden.py, one run.                                                     *)
(***************************************************************************)
InitBurden ==
    /\ history \in Histories
    /\ errors \in ErrorTables
    /\ learn = <<>>
    /\ now = StartNow
    /\ InitProcess

NextBurden == StartBurden \/ BurdenDaily \/ BurdenRow \/ BurdenShip

SpecBurden == InitBurden /\ [][NextBurden]_vars

(***************************************************************************)
(* tolearn.py, one run.                                                    *)
(***************************************************************************)
InitToLearn ==
    /\ history = <<>>
    /\ errors = <<>>
    /\ learn \in SmallLearns \cup LargeLearns
    /\ now \in {StartNow, StartNow + 1}
    /\ InitProcess

NextToLearn ==
    \/ StartToLearn \/ ToLearnQuery \/ ToLearnWidth
    \/ ToLearnHead1 \/ ToLearnHead2 \/ ToLearnRow \/ ToLearnEnd

SpecToLearn == InitToLearn /\ [][NextToLearn]_vars

(***************************************************************************)
(* Both scripts, run again and again on one store, the clock ticking       *)
(* between the runs and the reader free to close the pipe.                 *)
(***************************************************************************)
InitRuns ==
    /\ history \in SeqsUpTo({[start |-> 600, stop |-> 630]}, 1)
    /\ errors \in ErrorTables
    /\ learn \in {<<>>,
                  <<[word |-> "at", goods |-> 0, interval |-> 5, next |-> StartNow]>>,
                  <<[word |-> "at", goods |-> 0, interval |-> 5,
                     next |-> StartNow + 30],
                    [word |-> "there", goods |-> 12, interval |-> 90,
                     next |-> StartNow - 60]>>}
    /\ now = StartNow
    /\ InitProcess

NextRuns == NextBurden \/ NextToLearn \/ ClosePipe \/ Reap \/ Tick

SpecRuns == InitRuns /\ [][NextRuns]_vars

(***************************************************************************)
(* A caller of Track: any sequence of add and ship on a fresh Track.       *)
(***************************************************************************)
TrackDays == {0, 1, 2}
TrackIntervals == {5, 20}
\* The Daily Totals a Track is built over: the days of any subset.
Dailies == {[d \in S |-> 3600 * (d + 1)] : S \in SUBSET TrackDays}

InitTrack ==
    /\ history = <<>> /\ errors = <<>> /\ learn = <<>> /\ now = 0
    /\ prog = "track" /\ pc = "calls"
    /\ elts \in Dailies
    /\ track = TrackInit(elts)
    /\ ecur = <<>>
    /\ rows = <<>> /\ longest = 0 /\ count = 0
    /\ out = <<>> /\ pipe = "open" /\ exit = "running"
    /\ fed = <<>> /\ ships = 0 /\ call = NoCall
    /\ prev = <<>>

\* track.add(date, interval)
AddCall ==
    /\ prog = "track"
    /\ Len(fed) + ships < MaxCalls
    /\ \E date \in TrackDays, interval \in TrackIntervals :
        LET r == Add(track, date, interval)
        IN  /\ track' = r.track
            /\ out' = out \o r.printed
            /\ fed' = Append(fed, [date |-> date, interval |-> interval])
            /\ call' = [op |-> "add", date |-> date, interval |-> interval]
    /\ UNCHANGED <<store, now, prog, pc, elts, ecur, tolearnVars, pipe, exit,
                   ships, prev>>

\* track.ship()
ShipCall ==
    /\ prog = "track"
    /\ Len(fed) + ships < MaxCalls
    /\ LET r == Ship(track)
       IN  /\ track' = r.track
           /\ out' = out \o r.printed
    /\ ships' = ships + 1
    /\ call' = [op |-> "ship", date |-> 0, interval |-> 5]
    /\ UNCHANGED <<store, now, prog, pc, elts, ecur, tolearnVars, pipe, exit,
                   fed, prev>>

NextTrack == AddCall \/ ShipCall

SpecTrack == InitTrack /\ [][NextTrack]_vars

(***************************************************************************)
(* Properties of Track.                                                    *)
(***************************************************************************)

\* The calls so far were adds alone, closed by one ship.
FedThenShipped == prog = "track" /\ ships = 1 /\ call.op = "ship"

\* All events of one day-key are next to each other.
Contiguous(s) ==
    \A i, j, k \in 1..Len(s) :
        (i < j /\ j < k /\ s[i].date = s[k].date) => s[j].date = s[i].date

RECURSIVE SumOver(_, _)
\* The sum of the costs of the events of s at the indices I.
SumOver(s, I) ==
    IF I = {} THEN 0
    ELSE LET i == CHOOSE x \in I : TRUE
         IN  Cost(s[i].interval) + SumOver(s, I \ {i})

\* The indices at which a day-key is met for the first time, ascending.
FirstSeen(s) ==
    Ascending({i \in 1..Len(s) : \A j \in 1..(i - 1) : s[j].date # s[i].date})

\* The indices at which a maximal run of equal day-keys starts, ascending.
RunStarts(s) ==
    Ascending({i \in 1..Len(s) : i = 1 \/ s[i - 1].date # s[i].date})

\* The indices of the run that starts at i.
RunAt(s, i) ==
    {j \in i..Len(s) : \A m \in i..j : s[m].date = s[i].date}

\* C1: a stream whose days are contiguous, fed to add and closed by one ship,
\* gives one line per distinct day, in the order the days are first met, each
\* with the summed cost of all events of its day; an empty stream gives no line.
C1_OneLinePerDay ==
    (FedThenShipped /\ Contiguous(fed)) =>
        LET first == FirstSeen(fed)
        IN  /\ Len(out) = Len(first)
            /\ \A n \in 1..Len(first) :
                LET d == fed[first[n]].date
                IN  /\ out[n].date = d
                    /\ out[n].burden =
                        SumOver(fed, {i \in 1..Len(fed) : fed[i].date = d})

C1_Witness ==
    /\ FedThenShipped /\ Contiguous(fed)
    /\ Len(fed) = 3 /\ Len(out) = 2
    /\ fed[1].date = fed[2].date
    /\ out[1].burden = 2 * Cost(20)

\* C2: every line shipped for day D shows the Daily Totals entry of D, or 0
\* when D has none, and over = total - cost; add and ship leave the Daily
\* Totals as they were.
C2_TotalAndOver ==
    prog = "track" =>
        /\ \A n \in 1..Len(out) :
            /\ out[n].total =
                (IF out[n].date \in DOMAIN elts THEN elts[out[n].date] ELSE 0)
            /\ out[n].over = out[n].total - out[n].burden
        /\ track.daily = elts

C2_Witness ==
    /\ prog = "track"
    /\ \E n \in 1..Len(out) :
        out[n].date \notin DOMAIN elts /\ out[n].total = 0 /\ out[n].over < 0
    /\ \E n \in 1..Len(out) :
        out[n].date \in DOMAIN elts /\ out[n].total > 0

\* C9: an add of a date other than the open day (or with no day open) ships
\* the open day, if any, and leaves the date open with the cost of that one
\* event; every ship leaves no day open and the cost 0.
C9_Transition ==
    [][/\ (call'.op = "add" /\ Some(call'.date) # track.last_date) =>
            /\ track'.last_date = Some(call'.date)
            /\ track'.cost = Cost(call'.interval)
            /\ out' = IF track.last_date = None THEN out
                      ELSE Append(out,
                              [date |-> track.last_date[1],
                               burden |-> track.cost,
                               total |-> DailyGet(elts, track.last_date[1]),
                               over |-> DailyGet(elts, track.last_date[1])
                                            - track.cost])
       /\ call'.op = "ship" => (track'.last_date = None /\ track'.cost = 0)
      ]_vars

C9_Witness ==
    /\ prog = "track" /\ call.op = "add"
    /\ Len(fed) >= 3
    /\ fed[Len(fed) - 1].date # call.date
    /\ out # <<>> /\ out[Len(out)].date = fed[Len(fed) - 1].date
    /\ out[Len(out)].burden = 2 * Cost(20)
    /\ track.last_date = Some(call.date) /\ track.cost = Cost(20)

\* C10: whatever the order of the stream, there is one line per maximal run of
\* equal day-keys, with the summed cost of that run alone and the whole total
\* of its day; a day split into k runs is on k lines.
C10_OneLinePerRun ==
    FedThenShipped =>
        LET starts == RunStarts(fed)
        IN  /\ Len(out) = Len(starts)
            /\ \A n \in 1..Len(starts) :
                LET d == fed[starts[n]].date
                    c == SumOver(fed, RunAt(fed, starts[n]))
                IN  out[n] = [date |-> d, burden |-> c,
                              total |-> DailyGet(elts, d),
                              over |-> DailyGet(elts, d) - c]

C10_Witness ==
    /\ FedThenShipped /\ ~Contiguous(fed)
    /\ Len(fed) = 3 /\ Len(out) = 3
    /\ out[1].date = out[3].date
    /\ out[1].burden = Cost(20) /\ out[3].burden = Cost(20)
    /\ out[1].total = out[3].total /\ out[1].total > 0

(***************************************************************************)
(* Properties of compute_daily.                                            *)
(***************************************************************************)
RECURSIVE MinutesOver(_, _)
\* The minutes elapsed in the sessions of hist at the indices I, added up.
MinutesOver(hist, I) ==
    IF I = {} THEN 0
    ELSE LET i == CHOOSE x \in I : TRUE
         IN  (hist[i].stop - hist[i].start) + MinutesOver(hist, I \ {i})

\* The sessions of hist whose start falls in day d.
SessionsOf(hist, d) ==
    {i \in 1..Len(hist) : (hist[i].start - 9 * 60) \div 1440 = d}

DailyDone == prog = "burden" /\ pc \in {"loop", "exited"}

\* C3: the total compute_daily stores for a day-key is the sum of the elapsed
\* minutes of all sessions whose start maps to it, repeated sessions counted
\* each time, and the mapping is that of every other insertion order.
C3_DailySum ==
    DailyDone =>
        /\ DOMAIN elts = {d \in -2..3 : SessionsOf(history, d) # {}}
        /\ \A d \in DOMAIN elts :
            elts[d] = 60 * MinutesOver(history, SessionsOf(history, d))
        /\ \A p \in Permutations(1..Len(history)) :
            compute_daily([i \in 1..Len(history) |-> history[p[i]]]) = elts

C3_Witness ==
    /\ DailyDone
    /\ Len(history) = 3
    /\ history[1] = history[3] /\ history[1].start = 600
    /\ history[2].start = 1900 /\ history[2].stop = 1901
    /\ history[1].stop = 630
    /\ elts = (0 :> 60 * 61)

(***************************************************************************)
(* Properties of tolearn.py.                                               *)
(***************************************************************************)

\* The data rows printed so far.
DataRows == SubSeq(out, 3, Len(out))

\* The signed number of hundredths a rendered column shows.
Shown(f) == IF f.open = "(" THEN -f.digits ELSE f.digits

\* How many rows of the sequence s are the item v.
CountIn(s, v) == Cardinality({i \in 1..Len(s) : s[i] = v})

\* The learn item the fetched row r was made of.
ItemOf(r) == [word |-> r[1], goods |-> r[2], interval |-> r[3],
              next |-> r[4] + now]

RanOk == prog = "tolearn" /\ pc = "exited" /\ exit = "ok"

\* C4: on a learn table of N > 0 items the data rows number min(50, N), they
\* are the items with the smallest next in ascending order of next, and the
\* k-th row has rank k.
C4_RowsRankedAscending ==
    (RanOk /\ learn # <<>>) =>
        LET data == DataRows
            n == IF Len(learn) < 50 THEN Len(learn) ELSE 50
            items == [k \in 1..Len(rows) |-> ItemOf(rows[k])]
        IN  /\ Len(data) = n
            /\ Len(rows) = n
            /\ \A k \in 1..n :
                /\ data[k].kind = "row"
                /\ data[k].rank = k
                /\ data[k].word = items[k].word
                /\ data[k].goods = items[k].goods
                /\ Shown(data[k].nsec) = 100 * (items[k].next - now)
                /\ k < n => items[k].next <= items[k + 1].next
            /\ \A i \in 1..Len(learn) :
                /\ CountIn(items, learn[i]) <= CountIn(learn, learn[i])
                /\ CountIn(items, learn[i]) < CountIn(learn, learn[i])
                    => learn[i].next >= items[n].next
            /\ \A k \in 1..n : \E i \in 1..Len(learn) : learn[i] = items[k]

C4_Witness ==
    /\ RanOk
    /\ Len(learn) = 51
    /\ Len(DataRows) = 50
    /\ DataRows[50].rank = 50
    /\ \E i \in 1..51 : learn[i].next > learn[1].next
    /\ \E i \in 2..51 : learn[i].next < learn[i - 1].next

\* C5: on an empty learn table the run fails where the column width is
\* computed, and nothing has been written to standard output.
C5_EmptyFails ==
    (prog = "tolearn" /\ learn = <<>>) =>
        /\ out = <<>>
        /\ pc \in {"query", "width", "exited"}
        /\ pc = "exited" => exit = "ValueError"

C5_Witness ==
    /\ prog = "tolearn" /\ learn = <<>>
    /\ pc = "exited" /\ exit = "ValueError" /\ out = <<>>

\* A column shows the number n / d rounded to hundredths, in parentheses and
\* unsigned when it is negative, between spaces when it is not.
Renders(f, n, d) ==
    /\ f.digits >= 0
    /\ 2 * (100 * (IF n < 0 THEN -n ELSE n) - d * f.digits) <= d
    /\ 2 * (d * f.digits - 100 * (IF n < 0 THEN -n ELSE n)) <= d
    /\ n < 0 => (f.open = "(" /\ f.close = ")")
    /\ n >= 0 => (f.open = " " /\ f.close = " ")

\* C8: every printed row whose next lies before now shows due-in-minutes and
\* due-in-seconds as the absolute value in parentheses, and every other row
\* shows both between spaces; so does the interval column.
C8_NegativeInParentheses ==
    prog = "tolearn" =>
        LET sorted == SortByNext(learn)
        IN  \A k \in 1..Len(DataRows) :
                /\ Renders(DataRows[k].nmin, sorted[k].next - now, 60)
                /\ Renders(DataRows[k].nsec, sorted[k].next - now, 1)
                /\ Renders(DataRows[k].imin, sorted[k].interval, 60)

C8_Witness ==
    /\ RanOk
    /\ Len(DataRows) = 2
    /\ now = StartNow + 1
    /\ DataRows[1].nmin = [open |-> "(", digits |-> 102, close |-> ")"]
    /\ DataRows[1].nsec = [open |-> "(", digits |-> 6100, close |-> ")"]
    /\ DataRows[2].nmin = [open |-> " ", digits |-> 48, close |-> " "]
    /\ DataRows[2].nsec = [open |-> " ", digits |-> 2900, close |-> " "]

(***************************************************************************)
(* Properties of the runs.                                                 *)
(***************************************************************************)

\* A run has ended with its output read to the end, and an earlier such run
\* of the same script is remembered.
RanAgain ==
    /\ prog \in {"burden", "tolearn"}
    /\ pc = "exited" /\ pipe = "open"
    /\ prev[prog] # None

\* C6, as claimed: two runs of either script on the unchanged store write the
\* same output, whatever the time each was started at.
C6_SameOutputTwice ==
    RanAgain => out = prev[prog][1].out

\* C6, amended: two runs of burden.py on the unchanged store write the same
\* output; two runs of tolearn.py do when the clock read the same second.
C6_SameOutputAtSameTime ==
    RanAgain =>
        /\ prog = "burden" => out = prev[prog][1].out
        /\ (prog = "tolearn" /\ prev[prog][1].at = now)
                => out = prev[prog][1].out

C6_Witness ==
    /\ RanAgain
    /\ prog = "burden"
    /\ prev["burden"][1].at < now
    /\ Len(out) = 2 /\ out = prev["burden"][1].out
    /\ prev["tolearn"] # None
    /\ Len(prev["tolearn"][1].out) = 4

\* C7, as claimed: a run whose standard output was closed by its reader ends
\* with exit status 0 and without an error message.
C7_ClosedPipeExitsZero ==
    (/\ prog \in {"burden", "tolearn"}
     /\ pc = "exited" /\ pipe = "closed"
     /\ exit # "ValueError") =>
        /\ ExitStatus(exit) = 0
        /\ ~ErrorMessage(exit)

====
